---- MODULE Spec2Model ----
(***************************************************************************)
(* Model of giotto/time_series/preprocessing.py: the Resampler and the     *)
(* Stationarizer transformers, their fit/transform life cycle and the      *)
(* array operations transform performs.                                    *)
(*                                                                         *)
(* Time is counted in units of 12 hours from a Friday 00:00, so that a     *)
(* timestamp t has date t \div 2 and time-of-day t % 2.                    *)
(* Floating point values are records: a finite rational n/d in lowest      *)
(* terms, +inf, -inf, nan, or the natural logarithm of a positive          *)
(* rational other than 1.                                                  *)
(***************************************************************************)
EXTENDS Integers, Sequences, FiniteSets

VARIABLES cls, params, n_features, is_fitted, fit_columns, X,
          op, raised, returned, X_sampled, X_filtered, X_transformed,
          fit_succeeded, fit_failed

vars == <<cls, params, n_features, is_fitted, fit_columns, X,
          op, raised, returned, X_sampled, X_filtered, X_transformed,
          fit_succeeded, fit_failed>>

----------------------------------------------------------------------------
(* Bounds of the explored inputs.                                          *)

MaxRows == 3
MaxCols == 2
MaxT == 5
MaxNaN == 1
DailyRows == 14

(* Units of 12 hours in a day.                                             *)
DayLen == 2

(* Entries of the Stationarizer's input tables.                            *)
SVals == {0, 1, 2}

----------------------------------------------------------------------------
(* Strings that the code searches with the substring test `in`.            *)

Str_return == <<"r", "e", "t", "u", "r", "n">>
Str_log == <<"l", "o", "g">>
Str_log_return == Str_log \o <<"-">> \o Str_return
Str_bogus == <<"b", "o", "g", "u", "s">>

(* Python's  sub in s  on strings.                                         *)
str_contains(sub, s) ==
    \E i \in 0..(Len(s) - Len(sub)) : SubSeq(s, i + 1, i + Len(sub)) = sub

valid_sampling_types == <<"periodic", "fixed">>
valid_stationarization_types == <<Str_return, Str_log_return>>

(* Python's  x in list.                                                    *)
list_contains(x, l) == \E i \in 1..Len(l) : l[i] = x

----------------------------------------------------------------------------
(* Floating point values.                                                  *)

Abs(n) == IF n < 0 THEN 0 - n ELSE n

RECURSIVE GCD(_, _)
GCD(a, b) == IF b = 0 THEN a ELSE GCD(b, a % b)

Fin(n, d) ==
    LET g == GCD(Abs(n), Abs(d))
        s == IF d < 0 THEN 0 - 1 ELSE 1
    IN  [kind |-> "fin", n |-> (s * n) \div g, d |-> (s * d) \div g]

PosInf == [kind |-> "inf", n |-> 0, d |-> 1]
NegInf == [kind |-> "ninf", n |-> 0, d |-> 1]
NaN == [kind |-> "nan", n |-> 0, d |-> 1]

(* numpy true division of two integers (IEEE results for a zero divisor).  *)
np_true_divide(a, b) ==
    IF b # 0 THEN Fin(a, b)
    ELSE IF a > 0 THEN PosInf
    ELSE IF a < 0 THEN NegInf
    ELSE NaN

(* numpy natural logarithm of a floating point value.                      *)
np_log(x) ==
    CASE x.kind = "fin" ->
            IF x.n > 0
            THEN (IF x.n = x.d THEN Fin(0, 1)
                  ELSE [kind |-> "ln", n |-> x.n, d |-> x.d])
            ELSE IF x.n = 0 THEN NegInf ELSE NaN
      [] x.kind = "inf" -> PosInf
      [] OTHER -> NaN

----------------------------------------------------------------------------
(* ndarrays: records of a shape and the rows.                              *)

EmptyArray == [shape |-> <<0, 0>>, data |-> <<>>]

Max(a, b) == IF a > b THEN a ELSE b

(* Variant: the row count of the difference is n - 1 even for n = 0.       *)
np_diff_signed(A) ==
    LET r == A.shape[1] - 1
        f(i, j) == A.data[i + 1][j] - A.data[i][j]
    IN  [shape |-> <<r, A.shape[2]>>,
         data |-> [i \in 1..r |-> [j \in 1..A.shape[2] |-> f(i, j)]]]

(* np.diff(A, n=1, axis=0) : A[1:] - A[:-1].                               *)
np_diff(A) ==
    LET r == Max(A.shape[1] - 1, 0)
        f(i, j) == A.data[i + 1][j] - A.data[i][j]
    IN  [shape |-> <<r, A.shape[2]>>,
         data |-> [i \in 1..r |-> [j \in 1..A.shape[2] |-> f(i, j)]]]

(* Variant: A[:-1, :], the earlier value of each pair.                     *)
slice_to_last(A) ==
    LET r == Max(A.shape[1] - 1, 0)
        f(i, j) == A.data[i][j]
    IN  [shape |-> <<r, A.shape[2]>>,
         data |-> [i \in 1..r |-> [j \in 1..A.shape[2] |-> f(i, j)]]]

(* A[1:, :]                                                                *)
slice_from_1(A) ==
    LET r == Max(A.shape[1] - 1, 0)
        f(i, j) == A.data[i + 1][j]
    IN  [shape |-> <<r, A.shape[2]>>,
         data |-> [i \in 1..r |-> [j \in 1..A.shape[2] |-> f(i, j)]]]

(* A / B element-wise, on arrays of equal shape.                           *)
array_divide(A, B) ==
    LET f(i, j) == np_true_divide(A.data[i][j], B.data[i][j])
    IN  [shape |-> <<A.shape[1], A.shape[2]>>,
         data |-> [i \in 1..A.shape[1] |-> [j \in 1..A.shape[2] |-> f(i, j)]]]

(* np.log(A) element-wise.                                                 *)
array_log(A) ==
    LET f(i, j) == np_log(A.data[i][j])
    IN  [shape |-> <<A.shape[1], A.shape[2]>>,
         data |-> [i \in 1..A.shape[1] |-> [j \in 1..A.shape[2] |-> f(i, j)]]]

(* Integer array read as floats, for the path that skips the division.     *)
as_float(A) ==
    LET f(i, j) == Fin(A.data[i][j], 1)
    IN  [shape |-> <<A.shape[1], A.shape[2]>>,
         data |-> [i \in 1..A.shape[1] |-> [j \in 1..A.shape[2] |-> f(i, j)]]]

(* Variant: the type is compared for equality instead of searched.        *)
Stationarizer_compute_eq(type, A) ==
    LET X1 == IF type = Str_return
              THEN array_divide(np_diff(A), slice_from_1(A))
              ELSE as_float(A)
        X2 == IF type = Str_log_return THEN array_log(X1) ELSE X1
    IN  X2

(* The body of Stationarizer.transform after the fitted check.             *)
Stationarizer_compute(type, A) ==
    LET X1 == IF str_contains(Str_return, type)
              THEN array_divide(np_diff(A), slice_from_1(A))
              ELSE as_float(A)
        X2 == IF str_contains(Str_log, type) THEN array_log(X1) ELSE X1
    IN  X2

----------------------------------------------------------------------------
(* DataFrames with a datetime index: records of the timestamps, the       *)
(* number of columns and the rows.                                         *)

EmptyFrame == [index |-> <<>>, columns |-> 0, values |-> <<>>]

(* X.index.time                                                            *)
index_time(t) == t % DayLen

(* X.index.dayofweek, Monday = 0; timestamp 0 is a Friday.                 *)
index_dayofweek(t) == ((t \div DayLen) + 4) % 7

(* The duration a sampling_period string stands for, in units of 12 hours. *)
to_offset(period) ==
    CASE period = "12h" -> 1
      [] period = "24h" -> 2
      [] period = "36h" -> 3

SetMin(S) == CHOOSE m \in S : \A k \in S : m <= k

(* The positions 1 .. n of the rows of a frame.                            *)
positions(df) == [i \in 1..Len(df.index) |-> i]

(* X.iloc[mask] : the rows at the positions pos, in order.                 *)
iloc_rows(df, pos) ==
    [index |-> [k \in 1..Len(pos) |-> df.index[pos[k]]],
     columns |-> df.columns,
     values |-> [k \in 1..Len(pos) |-> df.values[pos[k]]]]

(* Variant: the bins are anchored at the first timestamp.                  *)
resample_first_at_first(df, period) ==
    LET n == Len(df.index)
        P == to_offset(period)
        bin(t) == (t - df.index[1]) \div P
        b1 == bin(df.index[n])
        f(k, j) ==
            LET S == {i \in 1..n : /\ bin(df.index[i]) = k - 1
                                   /\ df.values[i][j] # NaN}
            IN  IF S = {} THEN NaN ELSE df.values[SetMin(S)][j]
    IN  IF n = 0 THEN df
        ELSE [index |-> [k \in 1..(b1 + 1) |-> df.index[1] + (k - 1) * P],
              columns |-> df.columns,
              values |-> [k \in 1..(b1 + 1) |->
                             [j \in 1..df.columns |-> f(k, j)]]]

(* X.resample(period).first() for a sorted index: bins of length period,   *)
(* closed on the left and labelled by their left edge, anchored at         *)
(* midnight of the first timestamp's day, from the bin of the first        *)
(* timestamp to the bin of the last one; per column the first value that   *)
(* is not NaN among the rows of the bin, NaN when there is none.           *)
resample_first(df, period) ==
    LET n == Len(df.index)
        P == to_offset(period)
        start_day == (df.index[1] \div DayLen) * DayLen
        bin(t) == (t - start_day) \div P
        b0 == bin(df.index[1])
        b1 == bin(df.index[n])
        f(k, j) ==
            LET S == {i \in 1..n : /\ bin(df.index[i]) = b0 + k - 1
                                   /\ df.values[i][j] # NaN}
            IN  IF S = {} THEN NaN ELSE df.values[SetMin(S)][j]
    IN  IF n = 0 THEN df
        ELSE [index |-> [k \in 1..(b1 - b0 + 1) |-> start_day + (b0 + k - 1) * P],
              columns |-> df.columns,
              values |-> [k \in 1..(b1 - b0 + 1) |->
                             [j \in 1..df.columns |-> f(k, j)]]]

(* Variant: only the first sampling time is looked for.                    *)
isin_filter_first(df, sampling_times) ==
    LET keep(i) == index_time(df.index[i]) = sampling_times[1]
    IN  iloc_rows(df, SelectSeq(positions(df), keep))

(* np.isin(X.index.time, sampling_times) then X.iloc[...]                  *)
isin_filter(df, sampling_times) ==
    LET keep(i) == list_contains(index_time(df.index[i]), sampling_times)
    IN  iloc_rows(df, SelectSeq(positions(df), keep))

(* The sampling step of Resampler.transform.                               *)
Resampler_sample(p, df) ==
    IF p.sampling_type = "periodic" THEN resample_first(df, p.sampling_period)
    ELSE IF p.sampling_type = "fixed" THEN isin_filter(df, p.sampling_times)
    ELSE df

(* Variant: only Sundays are dropped.                                      *)
weekday_filter_sunday(df) ==
    LET keep(i) == index_dayofweek(df.index[i]) < 6
    IN  iloc_rows(df, SelectSeq(positions(df), keep))

(* X[:][X.index.dayofweek < 5]                                             *)
weekday_filter(df) ==
    LET keep(i) == index_dayofweek(df.index[i]) < 5
    IN  iloc_rows(df, SelectSeq(positions(df), keep))

(* The weekend step of Resampler.transform.                                *)
Resampler_weekends(p, df) ==
    IF p.remove_weekends THEN weekday_filter(df) ELSE df

(* X.iloc[:, 0].values                                                     *)
first_column(df) == [i \in 1..Len(df.index) |-> df.values[i][1]]

(* Whether  v.reshape((-1, nf))  is possible.                              *)
reshape_ok(v, nf) == nf > 0 /\ Len(v) % nf = 0

(* v.reshape((-1, nf)), row-major.                                         *)
reshape(v, nf) ==
    LET f(i, j) == v[(i - 1) * nf + j]
    IN  [shape |-> <<Len(v) \div nf, nf>>,
         data |-> [i \in 1..Len(v) \div nf |-> [j \in 1..nf |-> f(i, j)]]]

----------------------------------------------------------------------------
(* Validation and the fitted check.                                        *)

(* TRUE when Resampler._validate_params raises ValueError.                 *)
Resampler_validate_params(sampling_type) ==
    ~ list_contains(sampling_type, valid_sampling_types)

(* Variant: the type is accepted when it contains a known keyword.         *)
Stationarizer_validate_params_substr(stationarization_type) ==
    ~ (\/ str_contains(Str_return, stationarization_type)
       \/ str_contains(Str_log, stationarization_type))

(* TRUE when Stationarizer._validate_params raises ValueError.             *)
Stationarizer_validate_params(stationarization_type) ==
    ~ list_contains(stationarization_type, valid_stationarization_types)

(* Variant: the fitted check never raises.                                 *)
check_is_fitted_absent(has_attr) == FALSE

(* TRUE when check_is_fitted(self, ['_is_fitted']) raises NotFittedError:  *)
(* the attribute is absent.                                                *)
check_is_fitted(has_attr) == ~ has_attr

----------------------------------------------------------------------------
(* Inputs.                                                                 *)

(* The value of row i, column j of an input frame: a number that names     *)
(* the cell, or NaN where the mask says so.                                *)
CellValue(i, j) == Fin(10 * i + j, 1)

MonotoneSeqs(n) ==
    {s \in [1..n -> 0..MaxT] : \A i \in 1..(n - 1) : s[i] <= s[i + 1]}

Masks(n, nc) ==
    {m \in SUBSET ((1..n) \X (1..nc)) : Cardinality(m) <= MaxNaN}

MkFrame(idx, nc, mask) ==
    LET f(i, j) == IF <<i, j>> \in mask THEN NaN ELSE CellValue(i, j)
    IN  [index |-> idx, columns |-> nc,
         values |-> [i \in 1..Len(idx) |-> [j \in 1..nc |-> f(i, j)]]]

(* One row per day on DailyRows consecutive days, one column.              *)
DailyFrames ==
    {MkFrame([i \in 1..DailyRows |-> s + (i - 1) * DayLen], 1, {}) : s \in 0..MaxT}

SmallFrames ==
    UNION {UNION {{MkFrame(idx, nc, m) : m \in Masks(n, nc), idx \in MonotoneSeqs(n)}
                  : nc \in 1..MaxCols} : n \in 0..MaxRows}

RFrames == SmallFrames \cup DailyFrames

SArrays ==
    UNION {UNION {{[shape |-> <<r, c>>, data |-> d] : d \in [1..r -> [1..c -> SVals]]}
                  : c \in 1..MaxCols} : r \in 0..MaxRows}

ResamplerParams ==
    [sampling_type : {"periodic", "fixed", "bogus"},
     sampling_period : {"12h", "24h", "36h"},
     sampling_times : {<<0>>, <<0, 1>>},
     remove_weekends : BOOLEAN]

StationarizerParams ==
    [stationarization_type : {Str_return, Str_log_return, Str_bogus, Str_log}]

----------------------------------------------------------------------------
(* The state machine: one instance of either class, the table X its        *)
(* methods are called with, and the outcome of the latest call.            *)

Init ==
    /\ cls \in {"Resampler", "Stationarizer"}
    /\ params \in (IF cls = "Resampler" THEN ResamplerParams
                   ELSE StationarizerParams)
    /\ X \in (IF cls = "Resampler" THEN RFrames ELSE SArrays)
    /\ fit_columns \in (IF cls = "Resampler" THEN 1..MaxCols ELSE {X.shape[2]})
    /\ n_features = 0
    /\ is_fitted = FALSE
    /\ op = "none"
    /\ raised = "none"
    /\ returned = "none"
    /\ X_sampled = EmptyFrame
    /\ X_filtered = EmptyFrame
    /\ X_transformed = EmptyArray
    /\ fit_succeeded = FALSE
    /\ fit_failed = FALSE

NoTables ==
    /\ X_sampled' = EmptyFrame
    /\ X_filtered' = EmptyFrame
    /\ X_transformed' = EmptyArray

Resampler_fit ==
    /\ cls = "Resampler"
    /\ op' = "fit"
    /\ NoTables
    /\ IF Resampler_validate_params(params.sampling_type)
       THEN /\ raised' = "ValueError"
            /\ returned' = "none"
            /\ fit_failed' = TRUE
            /\ UNCHANGED <<n_features, is_fitted, fit_succeeded>>
       ELSE /\ n_features' = fit_columns
            /\ is_fitted' = TRUE
            /\ raised' = "none"
            /\ returned' = "self"
            /\ fit_succeeded' = TRUE
            /\ UNCHANGED fit_failed
    /\ UNCHANGED <<cls, params, fit_columns, X>>

Resampler_transform ==
    /\ cls = "Resampler"
    /\ op' = "transform"
    /\ IF check_is_fitted(is_fitted)
       THEN /\ raised' = "NotFittedError"
            /\ returned' = "none"
            /\ NoTables
       ELSE LET Xs == Resampler_sample(params, X)
                Xw == Resampler_weekends(params, Xs)
                v == first_column(Xw)
            IN  /\ X_sampled' = Xs
                /\ X_filtered' = Xw
                /\ IF reshape_ok(v, n_features)
                   THEN /\ X_transformed' = reshape(v, n_features)
                        /\ raised' = "none"
                        /\ returned' = "ndarray"
                   ELSE /\ X_transformed' = EmptyArray
                        /\ raised' = "ValueError"
                        /\ returned' = "none"
    /\ UNCHANGED <<cls, params, n_features, is_fitted, fit_columns, X,
                   fit_succeeded, fit_failed>>

Stationarizer_fit ==
    /\ cls = "Stationarizer"
    /\ op' = "fit"
    /\ NoTables
    /\ IF Stationarizer_validate_params(params.stationarization_type)
       THEN /\ raised' = "ValueError"
            /\ returned' = "none"
            /\ fit_failed' = TRUE
            /\ UNCHANGED <<is_fitted, fit_succeeded>>
       ELSE /\ is_fitted' = TRUE
            /\ raised' = "none"
            /\ returned' = "self"
            /\ fit_succeeded' = TRUE
            /\ UNCHANGED fit_failed
    /\ UNCHANGED <<cls, params, n_features, fit_columns, X>>

Stationarizer_transform ==
    /\ cls = "Stationarizer"
    /\ op' = "transform"
    /\ X_sampled' = EmptyFrame
    /\ X_filtered' = EmptyFrame
    /\ IF check_is_fitted(is_fitted)
       THEN /\ raised' = "NotFittedError"
            /\ returned' = "none"
            /\ X_transformed' = EmptyArray
       ELSE /\ X_transformed' =
                   Stationarizer_compute(params.stationarization_type, X)
            /\ raised' = "none"
            /\ returned' = "ndarray"
    /\ UNCHANGED <<cls, params, n_features, is_fitted, fit_columns, X,
                   fit_succeeded, fit_failed>>

Next ==
    \/ Resampler_fit
    \/ Resampler_transform
    \/ Stationarizer_fit
    \/ Stationarizer_transform

Spec == Init /\ [][Next]_vars

----------------------------------------------------------------------------
(* Vocabulary of the properties.                                           *)

FittedTransform(c) == cls = c /\ op = "transform" /\ is_fitted

(* The k-th smallest element of a set of positions.                        *)
Kth(S, k) == CHOOSE i \in S : Cardinality({j \in S : j < i}) = k - 1

(* df consists of the rows of src at the positions K, in order.            *)
IsRowsOf(df, src, K) ==
    /\ Len(df.index) = Cardinality(K)
    /\ Len(df.values) = Cardinality(K)
    /\ df.columns = src.columns
    /\ \A k \in 1..Cardinality(K) :
          /\ df.index[k] = src.index[Kth(K, k)]
          /\ df.values[k] = src.values[Kth(K, k)]

(* The input row a value of a frame was read from.                         *)
SourceRow(v) == v.n \div 10

----------------------------------------------------------------------------
(* C1: a transform call on an instance on which no fit call has succeeded  *)
(* raises NotFittedError and returns no table, for both classes.           *)
Thm_C1 ==
    (op = "transform" /\ ~ fit_succeeded) =>
        /\ raised = "NotFittedError"
        /\ returned = "none"
        /\ X_transformed = EmptyArray

Wit_C1 ==
    /\ op = "transform"
    /\ fit_failed
    /\ ~ fit_succeeded
    /\ raised = "NotFittedError"

(* C2: fit raises ValueError exactly when the type is not one of the       *)
(* recognized values; for a recognized value it sets the fitted marker     *)
(* and returns the instance.                                               *)
Thm_C2 ==
    op = "fit" =>
        LET recognized ==
                IF cls = "Resampler"
                THEN params.sampling_type \in {"periodic", "fixed"}
                ELSE params.stationarization_type \in {Str_return, Str_log_return}
        IN  /\ (raised = "ValueError") <=> ~ recognized
            /\ recognized => (raised = "none" /\ is_fitted /\ returned = "self")
            /\ ~ recognized => returned = "none"

Wit_C2 ==
    /\ op = "fit"
    /\ cls = "Stationarizer"
    /\ params.stationarization_type = Str_log
    /\ raised = "ValueError"
    /\ ~ is_fitted

(* C3: with type 'return', output entry (t-1, c) is                        *)
(* (X[t][c] - X[t-1][c]) / X[t][c] for t = 1 .. n_samples-1, each column   *)
(* on its own.                                                             *)
Thm_C3 ==
    (FittedTransform("Stationarizer") /\ params.stationarization_type = Str_return) =>
        /\ raised = "none"
        /\ \A t \in 2..X.shape[1] : \A c \in 1..X.shape[2] :
              X_transformed.data[t - 1][c] =
                  np_true_divide(X.data[t][c] - X.data[t - 1][c], X.data[t][c])

Wit_C3 ==
    /\ FittedTransform("Stationarizer")
    /\ params.stationarization_type = Str_return
    /\ X.shape = <<3, 2>>
    /\ X.data[1] = <<1, 2>>
    /\ X.data[2] = <<2, 1>>
    /\ X_transformed.data[1] = <<Fin(1, 2), Fin(0 - 1, 1)>>

Claim_C5 ==
    (FittedTransform("Stationarizer") /\ params.stationarization_type = Str_log_return) =>
        \A t \in 2..X.shape[1] : \A c \in 1..X.shape[2] :
            X_transformed.data[t - 1][c] =
                np_log(np_true_divide(X.data[t][c], X.data[t - 1][c]))

(* C6, as stated: the output of a fitted Stationarizer has n_samples - 1   *)
(* rows and n_features columns for every input, tables with zero rows      *)
(* included.                                                               *)
Orig_C6 ==
    FittedTransform("Stationarizer") =>
        X_transformed.shape = <<X.shape[1] - 1, X.shape[2]>>

(* C6, amended: the output has n_samples - 1 rows when the input has at    *)
(* least one row and zero rows when the input has none, and n_features     *)
(* columns in both cases.                                                  *)
Thm_C6 ==
    FittedTransform("Stationarizer") =>
        LET rows == IF X.shape[1] >= 1 THEN X.shape[1] - 1 ELSE 0
        IN  /\ raised = "none"
            /\ X_transformed.shape = <<rows, X.shape[2]>>
            /\ Len(X_transformed.data) = rows
            /\ \A i \in 1..rows : Len(X_transformed.data[i]) = X.shape[2]

Wit_C6 ==
    /\ FittedTransform("Stationarizer")
    /\ X.shape = <<0, 2>>
    /\ X_transformed.shape = <<0, 2>>

(* C7: with sampling_type 'fixed' and remove_weekends false, transform     *)
(* keeps exactly the input rows whose time-of-day is one of                *)
(* sampling_times, all of them, in their original order; the returned      *)
(* array holds the first column of these rows.                             *)
Thm_C7 ==
    (/\ FittedTransform("Resampler")
     /\ params.sampling_type = "fixed"
     /\ ~ params.remove_weekends) =>
        LET times == {params.sampling_times[k] :
                          k \in 1..Len(params.sampling_times)}
            K == {i \in 1..Len(X.index) : (X.index[i] % DayLen) \in times}
        IN  /\ IsRowsOf(X_sampled, X, K)
            /\ X_filtered = X_sampled
            /\ raised = "none" =>
                  \A k \in 1..Cardinality(K) :
                      X_transformed.data[((k - 1) \div n_features) + 1]
                                        [((k - 1) % n_features) + 1]
                          = X.values[Kth(K, k)][1]

Wit_C7 ==
    /\ FittedTransform("Resampler")
    /\ params.sampling_type = "fixed"
    /\ ~ params.remove_weekends
    /\ params.sampling_times = <<0>>
    /\ returned = "ndarray"
    /\ X.index = <<0, 1, 2>>
    /\ X_sampled.index = <<0, 2>>
    /\ X_transformed.shape = <<2, 1>>

(* The periodic sampling C8 describes: periods of length sampling_period   *)
(* counted from the first timestamp, one row per period that holds an      *)
(* input row, carrying the values of the first input row of the period.    *)
ClaimedPeriodic(df, P) ==
    LET n == Len(df.index)
        per(i) == (df.index[i] - df.index[1]) \div P
        pers == {per(i) : i \in 1..n}
        K == {i \in 1..n : \A j \in 1..n : per(j) = per(i) => i <= j}
    IN  /\ Len(X_sampled.values) = Cardinality(pers)
        /\ \A k \in 1..Cardinality(K) :
              X_sampled.values[k] = df.values[Kth(K, k)]

WeekdayRows ==
    IsRowsOf(X_filtered, X_sampled,
             {i \in 1..Len(X_sampled.index) :
                  ((X_sampled.index[i] \div DayLen) + 4) % 7 < 5})

(* No value after the weekend step was read from an input row dated        *)
(* Saturday or Sunday.                                                     *)
NoWeekendValue ==
    \A k \in 1..Len(X_filtered.index) : \A j \in 1..X_filtered.columns :
        X_filtered.values[k][j] # NaN =>
            ((X.index[SourceRow(X_filtered.values[k][j])] \div DayLen) + 4) % 7 < 5

(* A daily series of 14 consecutive days sampled with a period of a day.   *)
TwoWeeksDaily ==
    /\ Len(X.index) = 14
    /\ \A i \in 1..13 : X.index[i + 1] = X.index[i] + DayLen
    /\ params.sampling_type = "periodic"
    /\ params.sampling_period = "24h"

TenRows ==
    /\ Len(X_filtered.index) = 10
    /\ n_features = 1 => (raised = "none" /\ X_transformed.shape = <<10, 1>>)

(* C9, as stated: with remove_weekends the output holds no value taken     *)
(* from a row dated Saturday or Sunday and every row of the sampling step  *)
(* dated Monday to Friday, in order, under either sampling type; without   *)
(* it no row is dropped; 14 consecutive days sampled daily give 10 rows.   *)
Orig_C9 ==
    FittedTransform("Resampler") =>
        /\ params.remove_weekends => (NoWeekendValue /\ WeekdayRows)
        /\ ~ params.remove_weekends => X_filtered = X_sampled
        /\ (params.remove_weekends /\ TwoWeeksDaily) => TenRows

(* C9, amended: with remove_weekends the rows kept are exactly the rows    *)
(* of the sampling step whose own timestamp, for periodic sampling the     *)
(* start of the period, is a Monday to Friday, in order; no value comes    *)
(* from a Saturday or Sunday input row under fixed sampling or when the    *)
(* period divides a day; without remove_weekends no row is dropped; 14     *)
(* consecutive days sampled daily give 10 rows.                            *)
Thm_C9 ==
    FittedTransform("Resampler") =>
        /\ params.remove_weekends => WeekdayRows
        /\ (/\ params.remove_weekends
            /\ \/ params.sampling_type = "fixed"
               \/ DayLen % to_offset(params.sampling_period) = 0)
              => NoWeekendValue
        /\ ~ params.remove_weekends => X_filtered = X_sampled
        /\ (params.remove_weekends /\ TwoWeeksDaily) => TenRows

Wit_C9 ==
    /\ FittedTransform("Resampler")
    /\ params.remove_weekends
    /\ params.sampling_type = "periodic"
    /\ params.sampling_period = "36h"
    /\ X.index = <<0, 2>>
    /\ X.values[1][1] = NaN
    /\ X_sampled.index = <<0>>
    /\ X_filtered.values[1][1] = CellValue(2, 1)

(* C10: for an input with as many columns as the table given to fit, the   *)
(* output has shape (n_samples_new, n_features), n_samples_new being the   *)
(* number of rows left by the sampling step and the weekend filter, for    *)
(* every n_features >= 1.                                                  *)
Claim_C10 ==
    (FittedTransform("Resampler") /\ X.columns = n_features) =>
        /\ raised = "none"
        /\ X_transformed.shape = <<Len(X_filtered.index), n_features>>

====
